---- MODULE Spec2Model ----
(***************************************************************************)
(* gentool (tools/gentool/gentool.go): a one-shot command line program.    *)
(* main runs argParse, connectDB, gen.NewGenerator/UseDB, genModels,       *)
(* optionally g.ApplyBasic, and g.Execute, and dies by log.Fatal at the    *)
(* first failure.                                                          *)
(*                                                                         *)
(* State: the position of main (pc), the process inputs (the command line  *)
(* flags and the file system holding the YAML configuration), the merged   *)
(* configuration, the values main holds (db handle, generator config,      *)
(* models) and the ordered log of the calls made to the external libraries *)
(* (gorm, gorm/gen).                                                       *)
(***************************************************************************)
EXTENDS Naturals, Sequences, FiniteSets, TLC

VARIABLES pc,        \* position of main
          flags,     \* the parsed command line (flag.Parse), one string per flag
          fsys,      \* the file system: path -> file
          config,    \* *CmdParams returned by argParse
          dbConn,    \* *gorm.DB returned by connectDB
          genConf,   \* gen.Config given to gen.NewGenerator
          models,    \* []interface{} returned by genModels
          err,       \* the err variable of main
          fatal,     \* the log.Fatal that ended the process, "" if none
          calls      \* the calls made to gorm / gorm/gen, in order

vars == <<pc, flags, fsys, config, dbConn, genConf, models, err, fatal, calls>>

Nil == [nil |-> TRUE]    \* a nil pointer, a nil error

(***************************************************************************)
(* Bounds of the model.                                                    *)
(***************************************************************************)
MaxFlagLen == 3     \* longest -tables flag string
MaxDbTables == 2    \* most tables the database holds

(***************************************************************************)
(* DBType constants.                                                       *)
(***************************************************************************)
dbMySQL == "mysql"
dbPostgres == "postgres"
dbSQLite == "sqlite"
dbSQLServer == "sqlserver"
dbClickHouse == "clickhouse"

(***************************************************************************)
(* CmdParams and its zero value (var cmdParse CmdParams).                  *)
(***************************************************************************)
ZeroParams ==
  [DSN |-> "", DB |-> "", Tables |-> <<>>, OnlyModel |-> FALSE,
   OutPath |-> "", OutFile |-> "", WithUnitTest |-> FALSE,
   ModelPkgName |-> "", FieldNullable |-> FALSE, FieldWithIndexTag |-> FALSE,
   FieldWithTypeTag |-> FALSE, FieldSignable |-> FALSE]

(***************************************************************************)
(* The flags of argParse, all of type string with default "".              *)
(***************************************************************************)
NoFlags ==
  [genPath |-> "", dsn |-> "", db |-> "", tableList |-> "", onlyModel |-> "",
   outPath |-> "", outFile |-> "", withUnitTest |-> "", modelPkgName |-> "",
   fieldNullable |-> "", fieldWithIndexTag |-> "", fieldWithTypeTag |-> "",
   fieldSignable |-> ""]

(***************************************************************************)
(* strings.Split(s, ","): the substrings between the commas of s.  A       *)
(* string without comma gives the one-element list <<s>>.                  *)
(***************************************************************************)
RECURSIVE Split(_)
Split(s) ==
  IF \A i \in 1..Len(s) : SubSeq(s, i, i) # ","
  THEN <<s>>
  ELSE LET i == CHOOSE k \in 1..Len(s) :
                  /\ SubSeq(s, k, k) = ","
                  /\ \A j \in 1..(k - 1) : SubSeq(s, j, j) # ","
       IN  <<SubSeq(s, 1, i - 1)>> \o Split(SubSeq(s, i + 1, Len(s)))

(***************************************************************************)
(* The file system.  A file is absent, present but not openable, or        *)
(* readable with a content; a content is Malformed (the YAML decoder       *)
(* fails on it) or a YamlConfig whose Database is Nil or a CmdParams.      *)
(***************************************************************************)
Malformed == [malformed |-> TRUE]
Absent == [exists |-> FALSE, readable |-> FALSE, content |-> Malformed]

loadConfigFile(path, fs) ==
  LET file == IF path \in DOMAIN fs THEN fs[path] ELSE Absent
  IN  IF ~file.exists \/ ~file.readable
      THEN [params |-> Nil, err |-> [msg |-> "open"]]
      ELSE IF file.content = Malformed
           THEN [params |-> Nil, err |-> [msg |-> "yaml decode"]]
           ELSE [params |-> file.content.Database, err |-> Nil]

\* Faulty variant: db is set to the default without testing it for "".
defaultStrParamsAlways(params) ==
  LET p1 == [params EXCEPT !.DB = "mysql"]
  IN  IF p1.OutPath = "" THEN [p1 EXCEPT !.OutPath = "./dao/query"] ELSE p1

defaultStrParams(params) ==
  LET p1 == IF params.DB = "" THEN [params EXCEPT !.DB = "mysql"] ELSE params
  IN  IF p1.OutPath = "" THEN [p1 EXCEPT !.OutPath = "./dao/query"] ELSE p1

(***************************************************************************)
(* The flag overrides of argParse ("cmd first"), one per flag.             *)
(***************************************************************************)
\* Faulty variant: the flag fills the field only when the file left it empty.
StrFlagFileFirst(p, field, v) ==
  IF v # "" /\ p[field] = "" THEN [p EXCEPT ![field] = v] ELSE p

\* Faulty variant: the flag is read as strconv.ParseBool would read it.
BoolFlagParseBool(p, field, v) ==
  IF v # "" THEN [p EXCEPT ![field] = (v \in {"true", "TRUE", "1"})] ELSE p

StrFlag(p, field, v) == IF v # "" THEN [p EXCEPT ![field] = v] ELSE p
BoolFlag(p, field, v) == IF v # "" THEN [p EXCEPT ![field] = (v = "true")] ELSE p
TablesFlag(p, v) == IF v # "" THEN [p EXCEPT !.Tables = Split(v)] ELSE p

applyFlags(cmdParse, fl) ==
  LET p1  == StrFlag(cmdParse, "DSN", fl.dsn)
      p2  == StrFlag(p1, "DB", fl.db)
      p3  == TablesFlag(p2, fl.tableList)
      p4  == BoolFlag(p3, "OnlyModel", fl.onlyModel)
      p5  == StrFlag(p4, "OutPath", fl.outPath)
      p6  == StrFlag(p5, "OutFile", fl.outFile)
      p7  == BoolFlag(p6, "WithUnitTest", fl.withUnitTest)
      p8  == StrFlag(p7, "ModelPkgName", fl.modelPkgName)
      p9  == BoolFlag(p8, "FieldNullable", fl.fieldNullable)
      p10 == BoolFlag(p9, "FieldWithIndexTag", fl.fieldWithIndexTag)
      p11 == BoolFlag(p10, "FieldWithTypeTag", fl.fieldWithTypeTag)
  IN  BoolFlag(p11, "FieldSignable", fl.fieldSignable)

(***************************************************************************)
(* argParse: the configuration file when -c is given, then the flags,      *)
(* then the defaults.  fatal # "" is the log.Fatalf of the function.       *)
(***************************************************************************)
\* Faulty variant: the error of loadConfigFile is dropped.
loadStepDropErr(fl, fs) ==
  IF fl.genPath # ""
  THEN LET r == loadConfigFile(fl.genPath, fs)
       IN  IF r.err = Nil /\ r.params # Nil
           THEN [cmdParse |-> r.params, fatal |-> ""]
           ELSE [cmdParse |-> ZeroParams, fatal |-> ""]
  ELSE [cmdParse |-> ZeroParams, fatal |-> ""]

\* Faulty variant: a file without database section is fatal too.
loadStepNilFatal(fl, fs) ==
  IF fl.genPath # ""
  THEN LET r == loadConfigFile(fl.genPath, fs)
       IN  IF r.err = Nil /\ r.params # Nil
           THEN [cmdParse |-> r.params, fatal |-> ""]
           ELSE [cmdParse |-> Nil, fatal |-> "loadConfigFile fail"]
  ELSE [cmdParse |-> ZeroParams, fatal |-> ""]

loadStep(fl, fs) ==
  IF fl.genPath # ""
  THEN LET r == loadConfigFile(fl.genPath, fs)
       IN  IF r.err = Nil /\ r.params # Nil
           THEN [cmdParse |-> r.params, fatal |-> ""]
           ELSE IF r.err # Nil
                THEN [cmdParse |-> Nil, fatal |-> "loadConfigFile fail"]
                ELSE [cmdParse |-> ZeroParams, fatal |-> ""]
  ELSE [cmdParse |-> ZeroParams, fatal |-> ""]

argParse(fl, fs) ==
  LET l == loadStep(fl, fs)
  IN  IF l.fatal # ""
      THEN [params |-> Nil, fatal |-> l.fatal]
      ELSE [params |-> defaultStrParams(applyFlags(l.cmdParse, fl)), fatal |-> ""]

(***************************************************************************)
(* connectDB.  openOk is the outcome of gorm.Open, which the environment   *)
(* decides; opened is the gorm.Open call made, Nil when none is made.      *)
(***************************************************************************)
Drivers == {dbMySQL, dbPostgres, dbSQLite, dbSQLServer, dbClickHouse}

\* Faulty variant: an unknown type falls back to the mysql driver.
connectDBFallback(t, dsn, openOk) ==
  IF dsn = ""
  THEN [db |-> Nil, err |-> [msg |-> "dsn cannot be empty"], opened |-> Nil]
  ELSE LET d == IF t \in {dbPostgres, dbSQLite, dbSQLServer, dbClickHouse}
                THEN t ELSE dbMySQL
       IN  [db     |-> IF openOk THEN [driver |-> d, dsn |-> dsn] ELSE Nil,
            err    |-> IF openOk THEN Nil ELSE [msg |-> "gorm.Open"],
            opened |-> [call |-> "gorm.Open", driver |-> d, dsn |-> dsn]]

connectDB(t, dsn, openOk) ==
  IF dsn = ""
  THEN [db |-> Nil, err |-> [msg |-> "dsn cannot be empty"], opened |-> Nil]
  ELSE IF t \in Drivers
       THEN [db     |-> IF openOk THEN [driver |-> t, dsn |-> dsn] ELSE Nil,
             err    |-> IF openOk THEN Nil ELSE [msg |-> "gorm.Open"],
             opened |-> [call |-> "gorm.Open", driver |-> t, dsn |-> dsn]]
       ELSE [db |-> Nil, err |-> [msg |-> "unknow db", db |-> t], opened |-> Nil]

(***************************************************************************)
(* g.GenerateModel(tableName): the model descriptor of one table.          *)
(***************************************************************************)
GenerateModel(tableName) == [model |-> tableName]

GenerateModelCall(tableName) == [call |-> "GenerateModel", table |-> tableName]
GetTablesCall(getTables) ==
  [call |-> "GetTables", list |-> getTables.list, err |-> getTables.err]

(***************************************************************************)
(* genModels.  getTables is the outcome of db.Migrator().GetTables(),      *)
(* which the environment decides: [list, err].  made is the list of calls  *)
(* the function makes, in order.                                           *)
(***************************************************************************)
\* Faulty variant: the given list is used as it is, also when empty.
genModelsNoEnumeration(tables, getTables) ==
  [models |-> [i \in 1..Len(tables) |-> GenerateModel(tables[i])],
   err    |-> Nil,
   made   |-> [i \in 1..Len(tables) |-> GenerateModelCall(tables[i])]]

\* Faulty variant: the error of GetTables is dropped.
genModelsDropErr(tables, getTables) ==
  LET tablesList == IF Len(tables) = 0 THEN getTables.list ELSE tables
  IN  [models |-> [i \in 1..Len(tablesList) |-> GenerateModel(tablesList[i])],
       err    |-> Nil,
       made   |-> (IF Len(tables) = 0 THEN <<GetTablesCall(getTables)>> ELSE <<>>)
                  \o [i \in 1..Len(tablesList) |->
                        GenerateModelCall(tablesList[i])]]

\* Faulty variant: the database is enumerated whatever the given list.
genModelsAlwaysEnumerates(tables, getTables) ==
  IF getTables.err # Nil
  THEN [models |-> <<>>,
        err    |-> [msg |-> "GORM migrator get all tables fail"],
        made   |-> <<GetTablesCall(getTables)>>]
  ELSE LET tablesList == IF Len(tables) = 0 THEN getTables.list ELSE tables
       IN  [models |-> [i \in 1..Len(tablesList) |-> GenerateModel(tablesList[i])],
            err    |-> Nil,
            made   |-> <<GetTablesCall(getTables)>>
                       \o [i \in 1..Len(tablesList) |->
                             GenerateModelCall(tablesList[i])]]

genModels(tables, getTables) ==
  IF Len(tables) = 0 /\ getTables.err # Nil
  THEN [models |-> <<>>,
        err    |-> [msg |-> "GORM migrator get all tables fail"],
        made   |-> <<GetTablesCall(getTables)>>]
  ELSE LET tablesList == IF Len(tables) = 0 THEN getTables.list ELSE tables
       IN  [models |-> [i \in 1..Len(tablesList) |-> GenerateModel(tablesList[i])],
            err    |-> Nil,
            made   |-> (IF Len(tables) = 0 THEN <<GetTablesCall(getTables)>> ELSE <<>>)
                       \o [i \in 1..Len(tablesList) |->
                             GenerateModelCall(tablesList[i])]]

(***************************************************************************)
(* The inputs of a run.  ConfigPath is the one path of the file system     *)
(* that may hold a file.  Every flag and every field of the file draws     *)
(* from a small set holding the empty value; a command line sets -c and    *)
(* -dsn freely and at most two other fields (flag and file value of each)  *)
(* away from the empty value.                                              *)
(***************************************************************************)
ConfigPath == "gen.yml"

RECURSIVE Strs(_)
Strs(n) ==
  IF n = 0 THEN {""}
  ELSE LET p == Strs(n - 1) IN p \cup {s \o c : s \in p, c \in {"a", ","}}

BoolFlagValues == {"", "true", "false", "TRUE", "1"}

\* flag name -> CmdParams field
FieldOf ==
  [dsn |-> "DSN", db |-> "DB", tableList |-> "Tables", onlyModel |-> "OnlyModel",
   outPath |-> "OutPath", outFile |-> "OutFile", withUnitTest |-> "WithUnitTest",
   modelPkgName |-> "ModelPkgName", fieldNullable |-> "FieldNullable",
   fieldWithIndexTag |-> "FieldWithIndexTag",
   fieldWithTypeTag |-> "FieldWithTypeTag", fieldSignable |-> "FieldSignable"]

BoolFlags ==
  {"onlyModel", "withUnitTest", "fieldNullable", "fieldWithIndexTag",
   "fieldWithTypeTag", "fieldSignable"}

FlagValues(f) ==
  CASE f = "dsn"          -> {"", "flag-dsn"}
    [] f = "db"           -> {"", dbPostgres, dbSQLServer, "oracle"}
    [] f = "tableList"    -> Strs(MaxFlagLen)
    [] f = "outPath"      -> {"", "./flag/out"}
    [] f = "outFile"      -> {"", "flag.go"}
    [] f = "modelPkgName" -> {"", "flagmodel"}
    [] OTHER              -> BoolFlagValues

FileValues(f) ==
  CASE f = "dsn"          -> {"", "file-dsn"}
    [] f = "db"           -> {"", dbSQLite, dbClickHouse, "db2"}
    [] f = "tableList"    -> {<<>>, <<"users">>, <<"users", "orders">>}
    [] f = "outPath"      -> {"", "./file/out"}
    [] f = "outFile"      -> {"", "file.go"}
    [] f = "modelPkgName" -> {"", "filemodel"}
    [] OTHER              -> BOOLEAN

VariedFlags == DOMAIN FieldOf \ {"dsn"}

File(content) == [exists |-> TRUE, readable |-> TRUE, content |-> content]

Files(database) ==
  { Absent,
    [exists |-> TRUE, readable |-> FALSE, content |-> Malformed],
    File(Malformed),
    File([Database |-> Nil]),
    File([Database |-> database]) }

\* The tables the database may hold, as GetTables lists them.
RECURSIVE TableName(_)
TableName(i) == IF i <= 1 THEN "t" ELSE TableName(i - 1) \o "t"

GetTablesOutcomes ==
  {[list |-> <<>>, err |-> [msg |-> "migrator"]]}
    \cup {[list |-> [i \in 1..n |-> TableName(i)], err |-> Nil] : n \in 0..MaxDbTables}

Init ==
  /\ \E genPath \in {"", ConfigPath}, f1 \in VariedFlags, f2 \in VariedFlags :
       \E d \in FlagValues("dsn"), v1 \in FlagValues(f1), v2 \in FlagValues(f2),
          e \in FileValues("dsn"), w1 \in FileValues(f1), w2 \in FileValues(f2) :
         \E file \in Files([ZeroParams EXCEPT !.DSN = e, ![FieldOf[f1]] = w1,
                                              ![FieldOf[f2]] = w2]) :
           /\ flags = [NoFlags EXCEPT !.genPath = genPath, !.dsn = d,
                                      ![f1] = v1, ![f2] = v2]
           /\ fsys = [path \in {ConfigPath} |-> file]
  /\ pc = "argParse"
  /\ config = Nil
  /\ dbConn = Nil
  /\ genConf = Nil
  /\ models = <<>>
  /\ err = Nil
  /\ fatal = ""
  /\ calls = <<>>

(***************************************************************************)
(* main, one action per call it makes.                                     *)
(***************************************************************************)
\* config := argParse().  argParse returns &cmdParse, never nil, so the
\* config == nil test of main never fires.
ArgParse ==
  /\ pc = "argParse"
  /\ LET r == argParse(flags, fsys)
     IN  IF r.fatal # ""
         THEN /\ pc' = "exit"
              /\ fatal' = r.fatal
              /\ UNCHANGED config
         ELSE /\ pc' = "connectDB"
              /\ config' = r.params
              /\ UNCHANGED fatal
  /\ UNCHANGED <<flags, fsys, dbConn, genConf, models, err, calls>>

\* db, err := connectDB(DBType(config.DB), config.DSN)
ConnectDB ==
  /\ pc = "connectDB"
  /\ \E openOk \in BOOLEAN :
       LET r == connectDB(config.DB, config.DSN, openOk)
       IN  /\ calls' = IF r.opened = Nil THEN calls ELSE Append(calls, r.opened)
           /\ err' = r.err
           /\ IF r.err # Nil
              THEN /\ pc' = "exit"
                   /\ fatal' = "connect db server fail"
                   /\ UNCHANGED dbConn
              ELSE /\ pc' = "NewGenerator"
                   /\ dbConn' = r.db
                   /\ UNCHANGED fatal
  /\ UNCHANGED <<flags, fsys, config, genConf, models>>

\* g := gen.NewGenerator(gen.Config{...}); g.UseDB(db)
NewGenerator ==
  /\ pc = "NewGenerator"
  /\ genConf' = [OutPath           |-> config.OutPath,
                 OutFile           |-> config.OutFile,
                 ModelPkgPath      |-> config.ModelPkgName,
                 WithUnitTest      |-> config.WithUnitTest,
                 FieldNullable     |-> config.FieldNullable,
                 FieldWithIndexTag |-> config.FieldWithIndexTag,
                 FieldWithTypeTag  |-> config.FieldWithTypeTag,
                 FieldSignable     |-> config.FieldSignable]
  /\ calls' = calls \o <<[call |-> "NewGenerator"], [call |-> "UseDB", db |-> dbConn]>>
  /\ pc' = "genModels"
  /\ UNCHANGED <<flags, fsys, config, dbConn, models, err, fatal>>

\* models, err := genModels(g, db, config.Tables)
GenModels ==
  /\ pc = "genModels"
  /\ \E getTables \in GetTablesOutcomes :
       LET r == genModels(config.Tables, getTables)
       IN  /\ calls' = calls \o r.made
           /\ err' = r.err
           /\ IF r.err # Nil
              THEN /\ pc' = "exit"
                   /\ fatal' = "get tables info fail"
                   /\ UNCHANGED models
              ELSE /\ pc' = "ApplyBasic"
                   /\ models' = r.models
                   /\ UNCHANGED fatal
  /\ UNCHANGED <<flags, fsys, config, dbConn, genConf>>

\* Faulty variant: ApplyBasic is called whatever OnlyModel.
ApplyBasicUnguarded ==
  /\ pc = "ApplyBasic"
  /\ calls' = Append(calls, [call |-> "ApplyBasic", models |-> models])
  /\ pc' = "Execute"
  /\ UNCHANGED <<flags, fsys, config, dbConn, genConf, models, err, fatal>>

\* if !config.OnlyModel { g.ApplyBasic(models...) }
ApplyBasic ==
  /\ pc = "ApplyBasic"
  /\ ~config.OnlyModel
  /\ calls' = Append(calls, [call |-> "ApplyBasic", models |-> models])
  /\ pc' = "Execute"
  /\ UNCHANGED <<flags, fsys, config, dbConn, genConf, models, err, fatal>>

SkipApplyBasic ==
  /\ pc = "ApplyBasic"
  /\ config.OnlyModel
  /\ pc' = "Execute"
  /\ UNCHANGED <<flags, fsys, config, dbConn, genConf, models, err, fatal, calls>>

\* g.Execute(), then main returns
Execute ==
  /\ pc = "Execute"
  /\ calls' = Append(calls, [call |-> "Execute"])
  /\ pc' = "exit"
  /\ UNCHANGED <<flags, fsys, config, dbConn, genConf, models, err, fatal>>

Next ==
  \/ ArgParse
  \/ ConnectDB
  \/ NewGenerator
  \/ GenModels
  \/ ApplyBasic
  \/ SkipApplyBasic
  \/ Execute

Spec == Init /\ [][Next]_vars

(***************************************************************************)
(* Properties.  They read the inputs (flags, fsys), the values main holds  *)
(* and the log of calls.                                                   *)
(***************************************************************************)
ConfigFile == fsys[ConfigPath]

\* -c names a file that opens, decodes and has a database section
Loaded ==
  /\ flags.genPath = ConfigPath
  /\ ConfigFile.exists /\ ConfigFile.readable
  /\ ConfigFile.content # Malformed
  /\ ConfigFile.content.Database # Nil

FileParams == IF Loaded THEN ConfigFile.content.Database ELSE ZeroParams

Parsed == config # Nil      \* argParse has returned

StrFlagNames == {"dsn", "db", "outPath", "outFile", "modelPkgName"}

RECURSIVE JoinComma(_)
JoinComma(list) ==
  IF Len(list) = 1 THEN list[1]
  ELSE list[1] \o "," \o JoinComma(Tail(list))

HasComma(s) == \E i \in 1..Len(s) : SubSeq(s, i, i) = ","

\* list is str cut at its commas
IsSplitOf(list, str) ==
  /\ Len(list) >= 1
  /\ \A i \in 1..Len(list) : ~HasComma(list[i])
  /\ JoinComma(list) = str

\* C1: a field supplied by a (non-empty) flag has the flag's value in the
\* record argParse returns, whatever the file holds: the string itself, the
\* comparison with "true" for a boolean, the comma-separated parts for tables.
C1_FlagOverridesFile ==
  Parsed =>
    /\ \A f \in StrFlagNames : flags[f] # "" => config[FieldOf[f]] = flags[f]
    /\ \A f \in BoolFlags : flags[f] # "" => config[FieldOf[f]] = (flags[f] = "true")
    /\ flags.tableList # "" => IsSplitOf(config.Tables, flags.tableList)

C1_Witness ==
  /\ Parsed /\ Loaded
  /\ flags.db # "" /\ FileParams.DB # "" /\ flags.db # FileParams.DB
  /\ config.DB = flags.db
  /\ flags.tableList = "a,a" /\ FileParams.Tables = <<"users">>
  /\ config.Tables = <<"a", "a">>

\* C2: db is "mysql" and outPath "./dao/query" exactly when neither the flag nor
\* the file gives the field a non-empty value; otherwise the field has the
\* flag's value, else the file's.  Every other field has the value the flag or
\* the file gave it, or its zero value: the defaults touch none of them.
C2_DefaultsOnlyWhenUnset ==
  Parsed =>
    /\ config.DB = IF flags.db # "" THEN flags.db
                   ELSE IF FileParams.DB # "" THEN FileParams.DB ELSE "mysql"
    /\ config.OutPath = IF flags.outPath # "" THEN flags.outPath
                        ELSE IF FileParams.OutPath # "" THEN FileParams.OutPath
                        ELSE "./dao/query"
    /\ \A f \in {"dsn", "outFile", "modelPkgName"} :
         config[FieldOf[f]] = IF flags[f] # "" THEN flags[f] ELSE FileParams[FieldOf[f]]
    /\ \A f \in BoolFlags :
         config[FieldOf[f]] = IF flags[f] # "" THEN flags[f] = "true"
                              ELSE FileParams[FieldOf[f]]
    /\ IF flags.tableList # "" THEN IsSplitOf(config.Tables, flags.tableList)
       ELSE config.Tables = FileParams.Tables

C2_Witness ==
  /\ Parsed /\ Loaded
  /\ flags.db = "" /\ FileParams.DB = "" /\ config.DB = "mysql"
  /\ flags.outPath = "" /\ FileParams.OutPath # "" /\ config.OutPath = FileParams.OutPath

\* -c names a file that is present but cannot be opened or cannot be decoded
BadConfigFile ==
  /\ flags.genPath = ConfigPath
  /\ ConfigFile.exists
  /\ ~ConfigFile.readable \/ ConfigFile.content = Malformed

\* C5: with -c naming a present file that cannot be opened or decoded, argParse
\* ends the process by log.Fatalf: no configuration is returned and no
\* connection, enumeration or generation call is ever made.
C5_BadConfigFileIsFatal ==
  (BadConfigFile /\ pc # "argParse") =>
    /\ pc = "exit"
    /\ fatal = "loadConfigFile fail"
    /\ config = Nil
    /\ calls = <<>>

C5_Witness ==
  /\ BadConfigFile /\ ConfigFile.readable /\ flags.dsn # ""
  /\ pc = "exit" /\ fatal = "loadConfigFile fail"

\* C8: a boolean field is TRUE exactly when its non-empty flag is the literal
\* "true" (so "false", "TRUE" and "1" give FALSE, also over TRUE in the file);
\* with the flag empty the field keeps the file's value.
C8_BoolFlagLiteralTrue ==
  Parsed =>
    \A f \in BoolFlags :
      /\ flags[f] = "true" => config[FieldOf[f]] = TRUE
      /\ flags[f] \notin {"", "true"} => config[FieldOf[f]] = FALSE
      /\ flags[f] = "" => config[FieldOf[f]] = FileParams[FieldOf[f]]

C8_Witness ==
  /\ Parsed /\ Loaded
  /\ flags.onlyModel = "TRUE" /\ FileParams.OnlyModel /\ ~config.OnlyModel
  /\ flags.fieldSignable = "" /\ FileParams.FieldSignable /\ config.FieldSignable

\* -c names a file that opens and decodes but has no database section
NoDatabaseSection ==
  /\ flags.genPath = ConfigPath
  /\ ConfigFile.exists /\ ConfigFile.readable
  /\ ConfigFile.content # Malformed
  /\ ConfigFile.content.Database = Nil

\* what the flags and the defaults alone give
FlagsAndDefaults ==
  [DSN               |-> flags.dsn,
   DB                |-> IF flags.db = "" THEN "mysql" ELSE flags.db,
   Tables            |-> IF flags.tableList = "" THEN <<>> ELSE Split(flags.tableList),
   OnlyModel         |-> flags.onlyModel = "true",
   OutPath           |-> IF flags.outPath = "" THEN "./dao/query" ELSE flags.outPath,
   OutFile           |-> flags.outFile,
   WithUnitTest      |-> flags.withUnitTest = "true",
   ModelPkgName      |-> flags.modelPkgName,
   FieldNullable     |-> flags.fieldNullable = "true",
   FieldWithIndexTag |-> flags.fieldWithIndexTag = "true",
   FieldWithTypeTag  |-> flags.fieldWithTypeTag = "true",
   FieldSignable     |-> flags.fieldSignable = "true"]

\* C9: a configuration file without database section is no error: argParse
\* returns the zero record with the flags and the defaults applied, which is
\* also what it returns without -c.
C9_NoDatabaseSectionAsNoFile ==
  ((NoDatabaseSection \/ flags.genPath = "") /\ pc # "argParse") =>
    /\ fatal # "loadConfigFile fail"
    /\ config = FlagsAndDefaults

C9_Witness ==
  /\ NoDatabaseSection /\ Parsed
  /\ flags.dsn # "" /\ flags.onlyModel = "true" /\ config.OnlyModel
  /\ config.DB = "mysql"

(***************************************************************************)
(* The log of calls.                                                       *)
(***************************************************************************)
CallsOf(kind) == SelectSeq(calls, LAMBDA c : c.call = kind)
Called(kind) == Len(CallsOf(kind)) > 0

\* the tables GenerateModel was called for, in call order
GeneratedTables ==
  LET g == CallsOf("GenerateModel") IN [i \in 1..Len(g) |-> g[i].table]

\* genModels has returned without error
ModelsDone == pc \in {"ApplyBasic", "Execute"} \/ (pc = "exit" /\ fatal = "")

\* genModels has returned
GenModelsReturned == ModelsDone \/ fatal = "get tables info fail"

\* C3 as stated: with an empty tables list the database is enumerated and a
\* model is generated for each table, and Execute never follows a pass of zero
\* GenerateModel calls.
C3_NeverEmptyPass ==
  /\ (GenModelsReturned /\ config.Tables = <<>>) => Called("GetTables")
  /\ (ModelsDone /\ config.Tables = <<>>) =>
       GeneratedTables = CallsOf("GetTables")[1].list
  /\ Called("Execute") => Called("GenerateModel")

\* C3 amended: with an empty tables list the database is enumerated and a model
\* is generated for each table GetTables lists; Execute follows a pass of zero
\* GenerateModel calls only when the tables list is empty and GetTables lists
\* no table.
C3_EmptyPassOnlyForEmptyDatabase ==
  /\ (GenModelsReturned /\ config.Tables = <<>>) => Called("GetTables")
  /\ (ModelsDone /\ config.Tables = <<>>) =>
       GeneratedTables = CallsOf("GetTables")[1].list
  /\ (Called("Execute") /\ ~Called("GenerateModel")) =>
       /\ config.Tables = <<>>
       /\ Called("GetTables")
       /\ CallsOf("GetTables")[1].err = Nil
       /\ CallsOf("GetTables")[1].list = <<>>

C3_Witness ==
  /\ Called("Execute") /\ ~Called("GenerateModel")
  /\ config.Tables = <<>> /\ CallsOf("GetTables")[1].list = <<>>

\* connectDB has returned
ConnectReturned == Parsed /\ pc # "connectDB"

\* C4 as stated: for a db that is none of the five drivers, and any dsn,
\* connectDB returns the error naming that db, gorm.Open is never called and
\* the process ends.
C4_UnknownDbNamedInError ==
  (ConnectReturned /\ config.DB \notin Drivers) =>
    /\ err = [msg |-> "unknow db", db |-> config.DB]
    /\ ~Called("gorm.Open")
    /\ pc = "exit" /\ fatal = "connect db server fail"

\* C4 amended: for a db that is none of the five drivers connectDB returns an
\* error, gorm.Open is never called and the process ends; the error names the
\* db when the dsn is not empty, and is "dsn cannot be empty" when it is.
C4_UnknownDbRejectedBeforeOpen ==
  (ConnectReturned /\ config.DB \notin Drivers) =>
    /\ err = IF config.DSN = "" THEN [msg |-> "dsn cannot be empty"]
             ELSE [msg |-> "unknow db", db |-> config.DB]
    /\ ~Called("gorm.Open")
    /\ calls = <<>>
    /\ pc = "exit" /\ fatal = "connect db server fail"

C4_Witness ==
  /\ ConnectReturned /\ config.DB = "oracle" /\ config.DSN # ""
  /\ err = [msg |-> "unknow db", db |-> "oracle"]
  /\ pc = "exit"

\* the place of a call in the pipeline of main
Stage(c) ==
  CASE c.call = "gorm.Open"     -> 1
    [] c.call = "NewGenerator"  -> 2
    [] c.call = "UseDB"         -> 3
    [] c.call = "GetTables"     -> 4
    [] c.call = "GenerateModel" -> 5
    [] c.call = "ApplyBasic"    -> 6
    [] c.call = "Execute"       -> 7

\* the calls were made in pipeline order, each once but GenerateModel
PipelineOrder ==
  /\ \A i, j \in 1..Len(calls) : i < j => Stage(calls[i]) <= Stage(calls[j])
  /\ \A k \in {"gorm.Open", "NewGenerator", "UseDB", "GetTables", "ApplyBasic",
               "Execute"} : Len(CallsOf(k)) <= 1

\* the three failures, read from the inputs and from what the libraries returned
ParseFailed ==
  /\ flags.genPath # ""
  /\ \/ flags.genPath # ConfigPath
     \/ ~ConfigFile.exists \/ ~ConfigFile.readable
     \/ ConfigFile.content = Malformed
ConnectFailed == ConnectReturned /\ dbConn = Nil
EnumerationFailed == Called("GetTables") /\ CallsOf("GetTables")[1].err # Nil

\* C6: main is the pipeline argParse, connectDB, genModels, (ApplyBasic),
\* Execute.  A failure of the configuration file, of the connection or of the
\* enumeration ends the process at once with its log.Fatal and no later step is
\* made; Execute is called exactly in the runs where none of the three failed,
\* and those runs end without log.Fatal.
C6_FatalPipeline ==
  /\ PipelineOrder
  /\ fatal # "" => pc = "exit"
  /\ pc = "exit" => ~ENABLED Next
  /\ (ParseFailed /\ pc # "argParse") =>
       pc = "exit" /\ fatal = "loadConfigFile fail" /\ calls = <<>>
  /\ ConnectFailed =>
       /\ pc = "exit" /\ fatal = "connect db server fail"
       /\ \A i \in 1..Len(calls) : calls[i].call = "gorm.Open"
  /\ EnumerationFailed =>
       /\ pc = "exit" /\ fatal = "get tables info fail"
       /\ calls[Len(calls)].call = "GetTables"
  /\ Called("Execute") <=> (pc = "exit" /\ fatal = "")
  /\ pc = "exit" =>
       (fatal = "" <=> ~ParseFailed /\ ~ConnectFailed /\ ~EnumerationFailed)
  /\ Called("Execute") =>
       /\ calls[Len(calls)].call = "Execute"
       /\ Called("gorm.Open") /\ Called("NewGenerator") /\ Called("UseDB")
       /\ Parsed /\ dbConn # Nil

C6_Witness ==
  /\ pc = "exit" /\ fatal = ""
  /\ Called("gorm.Open") /\ Called("GetTables") /\ Len(GeneratedTables) = 2
  /\ Called("ApplyBasic") /\ Called("Execute")

\* C7: ApplyBasic is called, once and with the generated models, exactly in the
\* runs whose merged OnlyModel is FALSE; with OnlyModel TRUE it is never called.
\* In both cases a run without failure has one GenerateModel call per model and
\* calls Execute.
C7_ApplyBasicUnlessOnlyModel ==
  /\ Called("ApplyBasic") =>
       /\ ~config.OnlyModel
       /\ CallsOf("ApplyBasic") = <<[call |-> "ApplyBasic", models |-> models]>>
  /\ Called("Execute") => (Called("ApplyBasic") <=> ~config.OnlyModel)
  /\ (pc = "exit" /\ fatal = "") =>
       /\ Called("Execute")
       /\ Len(CallsOf("GenerateModel")) = Len(models)

C7_Witness ==
  /\ Called("Execute") /\ config.OnlyModel /\ ~Called("ApplyBasic")
  /\ flags.onlyModel = "true" /\ Called("GenerateModel")

\* C10: genModels calls GetTables only for an empty tables list, and then once.
\* On success GenerateModel was called once per table, in list order, of the
\* given list (else of the list GetTables returned), and models has the model
\* of the i-th table at i.  When GetTables fails genModels returns its error,
\* no models, and GenerateModel was not called.
C10_GenModels ==
  /\ Called("GetTables") <=> (GenModelsReturned /\ config.Tables = <<>>)
  /\ Len(CallsOf("GetTables")) <= 1
  /\ ModelsDone =>
       LET tablesList == IF config.Tables = <<>> THEN CallsOf("GetTables")[1].list
                         ELSE config.Tables
       IN  /\ GeneratedTables = tablesList
           /\ Len(models) = Len(tablesList)
           /\ \A i \in 1..Len(tablesList) : models[i] = GenerateModel(tablesList[i])
           /\ err = Nil
  /\ fatal = "get tables info fail" =>
       /\ err = [msg |-> "GORM migrator get all tables fail"]
       /\ models = <<>>
       /\ ~Called("GenerateModel")
       /\ CallsOf("GetTables")[1].err # Nil

C10_Witness ==
  /\ ModelsDone /\ config.Tables = <<"users", "orders">>
  /\ ~Called("GetTables")
  /\ GeneratedTables = <<"users", "orders">>
  /\ models = <<[model |-> "users"], [model |-> "orders"]>>

====
